---- MODULE Spec2Model ----
(***************************************************************************)
(* FuzzableRequest (w3af/core/data/request/fuzzable_request.py).           *)
(*                                                                         *)
(* Python byte strings are sequences of byte codes 0..255, so that         *)
(* percent-decoding and the character filter of sent() are computed as the *)
(* code computes them.  None is the one-element sequence <<-1>>, which is  *)
(* no byte string.                                                         *)
(***************************************************************************)
EXTENDS Integers, Sequences, FiniteSets, TLC

VARIABLES fr, last, sent_called, cand, pc, tdata, tret

vars == <<fr, last, sent_called, cand, pc, tdata, tret>>

(***************************************************************************)
(* Byte strings                                                            *)
(***************************************************************************)

\* The printable ASCII characters, code 32 first (code 96 is spelled out:
\* the lexer takes no grave accent in a string).
Printable ==
    << " ", "!", "\"", "#", "$", "%", "&", "'", "(", ")", "*", "+", ",", "-",
       ".", "/", "0", "1", "2", "3", "4", "5", "6", "7", "8", "9", ":", ";",
       "<", "=", ">", "?", "@", "A", "B", "C", "D", "E", "F", "G", "H", "I",
       "J", "K", "L", "M", "N", "O", "P", "Q", "R", "S", "T", "U", "V", "W",
       "X", "Y", "Z", "[", "\\", "]", "^", "_", "grave", "a", "b", "c", "d", "e",
       "f", "g", "h", "i", "j", "k", "l", "m", "n", "o", "p", "q", "r", "s",
       "t", "u", "v", "w", "x", "y", "z", "{", "|", "}", "~" >>

\* ord(c) of a printable character.
Ord(c) == 31 + (CHOOSE i \in 1..Len(Printable) : Printable[i] = c)

\* The byte string written as the tuple of its characters.
S(t) == [i \in 1..Len(t) |-> Ord(t[i])]

\* The characters the code names.
ch_space == Ord(" ")
ch_pct == Ord("%")
ch_qm == Ord("?")
ch_0 == Ord("0")
ch_9 == Ord("9")
ch_a == Ord("a")
ch_f == Ord("f")
ch_A == Ord("A")
ch_F == Ord("F")
s_pct20 == S(<<"%", "2", "0">>)
s_comma == S(<<",">>)
s_qm == S(<<"?">>)
s_eq == S(<<"=">>)
s_amp == S(<<"&">>)
s_Referer == S(<<"R", "e", "f", "e", "r", "e", "r">>)

None == << -1 >>

EmptyStr == << >>

RECURSIVE Concat(_)
\* ''.join(parts)
Concat(parts) ==
    IF parts = << >> THEN << >> ELSE Head(parts) \o Concat(Tail(parts))

\* sub in s
In(sub, s) ==
    \E i \in 0..(Len(s) - Len(sub)) : SubSeq(s, i + 1, i + Len(sub)) = sub

\* s.replace(' ', '%20')
RECURSIVE replace_space(_)
replace_space(s) ==
    IF s = << >> THEN << >>
    ELSE (IF Head(s) = ch_space THEN s_pct20 ELSE <<Head(s)>>)
         \o replace_space(Tail(s))

IsHexDigit(c) ==
    \/ c \in ch_0..ch_9
    \/ c \in ch_a..ch_f
    \/ c \in ch_A..ch_F

HexVal(c) ==
    IF c \in ch_0..ch_9 THEN c - ch_0
    ELSE IF c \in ch_a..ch_f THEN c - ch_a + 10
    ELSE c - ch_A + 10

\* urllib.unquote: one pass, left to right; %XY with two hex digits becomes
\* the byte 16*X+Y, any other % stays.
RECURSIVE unquote(_)
unquote(s) ==
    IF s = << >> THEN << >>
    ELSE IF /\ Head(s) = ch_pct
            /\ Len(s) >= 3
            /\ IsHexDigit(s[2])
            /\ IsHexDigit(s[3])
         THEN <<16 * HexVal(s[2]) + HexVal(s[3])>> \o unquote(SubSeq(s, 4, Len(s)))
         ELSE <<Head(s)>> \o unquote(Tail(s))

\* str.isdigit(): at least one character, and every character a decimal digit.
isdigit(s) ==
    /\ Len(s) > 0
    /\ \A i \in 1..Len(s) : s[i] \in ch_0..ch_9

(***************************************************************************)
(* External collaborators: the resource identifier (URL), the parameter    *)
(* container (DataContainer), Cookie and Headers.  Each value carries the  *)
(* name of its Python type, which is what isinstance() reads.              *)
(***************************************************************************)

\* URL(s): a resource identifier with string form s.
URL(s) == [type |-> "URL", url_string |-> s]

\* str(url), unicode(url)
url_str(u) == u.url_string

\* The string up to, and without, its first '?'.
RECURSIVE strip_query(_)
strip_query(s) ==
    IF s = << >> \/ Head(s) = ch_qm THEN << >>
    ELSE <<Head(s)>> \o strip_query(Tail(s))

\* URL.uri2url(): the identifier without its query string.
uri2url(u) == URL(strip_query(u.url_string))

\* URL.url_decode(): the identifier, percent-decoded.
url_decode(u) == URL(unquote(url_str(u)))

\* DataContainer: the ordered items <<name, <<value, ...>>>>.
DataContainer(items) == [type |-> "DataContainer", items |-> items]

\* bool(dc): a container is true when it has at least one name.
dc_bool(dc) == dc.type # "NoneType" /\ Len(dc.items) > 0

\* dc.keys()
keys(dc) == [i \in 1..Len(dc.items) |-> dc.items[i][1]]

\* dc.values()
values(dc) == [i \in 1..Len(dc.items) |-> dc.items[i][2]]

\* chain(*dc.values()): every value, name after name.
chain(lists) == Concat(lists)

\* The name=value pairs of one name.
pairs_of(item) ==
    [j \in 1..Len(item[2]) |-> item[1] \o s_eq \o item[2][j]]

RECURSIVE join_amp(_)
\* '&'.join(parts)
join_amp(parts) ==
    IF parts = << >> THEN << >>
    ELSE IF Len(parts) = 1 THEN Head(parts)
    ELSE Head(parts) \o s_amp \o join_amp(Tail(parts))

\* str(dc): name=value pairs joined by '&' (names and values of unreserved
\* characters only, which the encoding leaves as they are).
dc_str(dc) ==
    join_amp(Concat([i \in 1..Len(dc.items) |-> pairs_of(dc.items[i])]))

\* Cookie(s): the cookie container built from the header value s.
Cookie(s) == [type |-> "Cookie", s |-> s]

\* Headers(pairs)
Headers(pairs) == [type |-> "Headers", items |-> pairs]

\* headers['Referer'] = value: replaces the header when present, else appends.
headers_set(h, name, value) ==
    IF \E i \in 1..Len(h.items) : h.items[i][1] = name
    THEN Headers([i \in 1..Len(h.items) |->
                     IF h.items[i][1] = name THEN <<name, value>> ELSE h.items[i]])
    ELSE Headers(Append(h.items, <<name, value>>))

\* hash() of a byte string: a function of the string's content alone.
RECURSIVE py_hash(_)
py_hash(s) ==
    IF s = << >> THEN 7
    ELSE (31 * py_hash(SubSeq(s, 1, Len(s) - 1)) + s[Len(s)]) % 65536

(***************************************************************************)
(* FuzzableRequest                                                         *)
(***************************************************************************)

GET == S(<<"G", "E", "T">>)

\* The outcome of a setter: the entity after the call and the exception it
\* raised ("none" when it returned).
Outcome(e, exc) == [e |-> e, exc |-> exc]

\* A setter that clears the match cache when it stores a new identifier.
set_uri_invalidating(e, uri) ==
    IF uri.type # "URL" THEN Outcome(e, "TypeError")
    ELSE Outcome([e EXCEPT !.uri = uri, !.url = uri2url(uri),
                           !.sent_info_comp = None], "none")

set_uri(e, uri) ==
    IF uri.type # "URL" THEN Outcome(e, "TypeError")
    ELSE Outcome([e EXCEPT !.uri = uri, !.url = uri2url(uri)], "none")

set_url(e, url) ==
    IF url.type # "URL" THEN Outcome(e, "TypeError")
    ELSE LET u == URL(replace_space(url.url_string))
         IN  Outcome([e EXCEPT !.url = u, !.uri = u], "none")

set_method(e, method) == Outcome([e EXCEPT !.method = method], "none")

set_dc(e, dataCont) ==
    IF dataCont.type # "DataContainer" THEN Outcome(e, "TypeError")
    ELSE Outcome([e EXCEPT !.dc = dataCont], "none")

set_headers(e, headers) == Outcome([e EXCEPT !.headers = Headers(headers)], "none")

set_referer(e, referer) ==
    Outcome([e EXCEPT !.headers =
                 headers_set(e.headers, s_Referer, url_str(referer))], "none")

\* A setter that stores an empty cookie before it rejects its argument.
set_cookie_clearing(e, c) ==
    IF c.type = "Cookie" THEN Outcome([e EXCEPT !.cookie = c], "none")
    ELSE IF c.type = "str" THEN Outcome([e EXCEPT !.cookie = Cookie(c.s)], "none")
    ELSE IF c.type = "NoneType" THEN Outcome([e EXCEPT !.cookie = Cookie(<< >>)], "none")
    ELSE Outcome([e EXCEPT !.cookie = Cookie(<< >>)], "BaseFrameworkException")

set_cookie(e, c) ==
    IF c.type = "Cookie" THEN Outcome([e EXCEPT !.cookie = c], "none")
    ELSE IF c.type = "str" THEN Outcome([e EXCEPT !.cookie = Cookie(c.s)], "none")
    ELSE IF c.type = "NoneType" THEN Outcome([e EXCEPT !.cookie = Cookie(<< >>)], "none")
    ELSE Outcome(e, "BaseFrameworkException")

set_data(e, d) == Outcome([e EXCEPT !.data = d], "none")

\* FuzzableRequest(uri, method, headers, cookie, dc)
New(uri, method, headers, cookie, dc) ==
    set_uri([uri            |-> uri,
             url            |-> uri,
             method         |-> method,
             headers        |-> Headers(headers),
             cookie         |-> IF cookie.type = "Cookie" THEN cookie ELSE Cookie(<< >>),
             dc             |-> IF dc_bool(dc) THEN dc ELSE DataContainer(<< >>),
             data           |-> None,
             sent_info_comp |-> None], uri).e

\* export() built on the full identifier instead of the url.
export_uri(e) ==
    LET meth == e.method
        str_res == <<meth, s_comma, url_str(e.uri)>>
    IN  Concat(IF meth = GET
               THEN (IF dc_bool(e.dc)
                     THEN str_res \o <<s_qm, dc_str(e.dc)>>
                     ELSE str_res) \o <<s_comma>>
               ELSE (str_res \o <<s_comma>>)
                    \o (IF dc_bool(e.dc) THEN <<dc_str(e.dc)>> ELSE << >>))

\* export(): the pieces of str_res, joined.
export(e) ==
    LET meth == e.method
        str_res == <<meth, s_comma, url_str(e.url)>>
    IN  Concat(IF meth = GET
               THEN (IF dc_bool(e.dc)
                     THEN str_res \o <<s_qm, dc_str(e.dc)>>
                     ELSE str_res) \o <<s_comma>>
               ELSE (str_res \o <<s_comma>>)
                    \o (IF dc_bool(e.dc) THEN <<dc_str(e.dc)>> ELSE << >>))

\* The characters make_comp deletes: \ ' " + space NUL CR LF.
delete_chars ==
    {Ord("\\"), Ord("'"), Ord("\""), Ord("+"), Ord(" "), 0, 13, 10}

\* make_comp: a deletion filter, the identity on every other byte, as the
\* examples in the docstring of sent() show it.
make_comp(heterogen_string) ==
    SelectSeq(heterogen_string, LAMBDA c : c \notin delete_chars)

min_len == 3

\* data = self._data or ''
data_or_empty(e) == IF e.data = None THEN EmptyStr ELSE e.data

\* The easy part: the four verbatim tests.
fast_path(e, data, smth_instng) ==
    \/ (data # EmptyStr /\ In(smth_instng, data))
    \/ In(smth_instng, url_str(e.uri))
    \/ In(smth_instng, unquote(data))
    \/ In(smth_instng, url_str(url_decode(e.uri)))

\* data = '%s%s%s' % (unicode(self._uri), data, dec_dc)
build_data(e, data) == url_str(e.uri) \o data \o unquote(dc_str(e.dc))

\* A store that adds to what the cache already holds.
store_comp_appending(e, data) ==
    [e EXCEPT !.sent_info_comp =
        (IF e.sent_info_comp = None THEN EmptyStr ELSE e.sent_info_comp)
        \o make_comp(data \o unquote(data))]

\* self._sent_info_comp = make_comp(data + unquote(data))
store_comp(e, data) ==
    [e EXCEPT !.sent_info_comp = make_comp(data \o unquote(data))]

\* The two comparable forms of the candidate.
smth_instng_comps(smth_instng) ==
    <<make_comp(smth_instng), make_comp(unquote(smth_instng))>>

\* A comparison without the length floor.
comp_matches_any_length(comp, sent_info_comp) == In(comp, sent_info_comp)

\* One turn of the loop over the comparable forms.
comp_matches(comp, sent_info_comp) ==
    In(comp, sent_info_comp) /\ Len(comp) >= min_len

\* sent(smth_instng), run without interruption: the entity after the call
\* and the value returned.
sent(e, smth_instng) ==
    LET data == data_or_empty(e)
    IN  IF fast_path(e, data, smth_instng) THEN [e |-> e, ret |-> TRUE]
        ELSE LET e2 == IF e.sent_info_comp = None
                       THEN store_comp(e, build_data(e, data))
                       ELSE e
                 comps == smth_instng_comps(smth_instng)
             IN  [e   |-> e2,
                  ret |-> \E k \in 1..Len(comps) :
                              comp_matches(comps[k], e2.sent_info_comp)]

\* A hash that also reads the method.
hash_with_method(e) == py_hash(e.method \o url_str(e.uri))

\* __hash__
hash(e) == py_hash(url_str(e.uri))

\* __eq__ (URL and DataContainer equality compare their contents)
eq(self, other) ==
    /\ self.method = other.method
    /\ self.uri = other.uri
    /\ self.dc = other.dc

\* izip_longest(..., fillvalue=None)[i]
at_or_none(seq, i) == IF i <= Len(seq) THEN seq[i] ELSE None

Max(a, b) == IF a >= b THEN a ELSE b

RECURSIVE variant_loop(_, _, _)
\* The loop over the paired values, from pair i on.
variant_loop(vs, vo, i) ==
    IF i > Max(Len(vs), Len(vo)) THEN TRUE
    ELSE LET vself == at_or_none(vs, i)
             vother == at_or_none(vo, i)
         IN  IF vself = None \/ vother = None
                \/ isdigit(vself) # isdigit(vother)
             THEN FALSE
             ELSE variant_loop(vs, vo, i + 1)

RECURSIVE variant_loop_self(_, _, _)
\* A loop that ends with self's values.
variant_loop_self(vs, vo, i) ==
    IF i > Len(vs) THEN TRUE
    ELSE LET vself == at_or_none(vs, i)
             vother == at_or_none(vo, i)
         IN  IF vself = None \/ vother = None
                \/ isdigit(vself) # isdigit(vother)
             THEN FALSE
             ELSE variant_loop_self(vs, vo, i + 1)

\* is_variant_of with the loop that ends with self's values.
is_variant_of_self_values(self, other) ==
    IF /\ self.method = other.method
       /\ self.url = other.url
       /\ keys(self.dc) = keys(other.dc)
    THEN variant_loop_self(chain(values(self.dc)), chain(values(other.dc)), 1)
    ELSE FALSE

\* is_variant_of that also asks for equal values.
is_variant_of_equal_values(self, other) ==
    IF /\ self.method = other.method
       /\ self.url = other.url
       /\ keys(self.dc) = keys(other.dc)
    THEN /\ variant_loop(chain(values(self.dc)), chain(values(other.dc)), 1)
         /\ chain(values(self.dc)) = chain(values(other.dc))
    ELSE FALSE

is_variant_of(self, other) ==
    IF /\ self.method = other.method
       /\ self.url = other.url
       /\ keys(self.dc) = keys(other.dc)
    THEN variant_loop(chain(values(self.dc)), chain(values(other.dc)), 1)
    ELSE FALSE

(***************************************************************************)
(* Inputs                                                                  *)
(***************************************************************************)

POST == S(<<"P", "O", "S", "T">>)

U_hp == S(<<"h", "/", "p">>)
U_hpq == S(<<"h", "/", "p", "?", "a", "=", "b">>)
U_sp == S(<<"h", "/", "a", " ", "b">>)
U_hq == S(<<"h", "/", "q">>)

N_a == S(<<"a">>)
N_b == S(<<"b">>)

\* The containers a=1, a=1&b=two, a=9&b=nine and a=1&b=2.
DC_empty == DataContainer(<< >>)
DC_a1 == DataContainer(<< <<N_a, <<S(<<"1">>)>>>> >>)
DC_1_two == DataContainer(<< <<N_a, <<S(<<"1">>)>>>>,
                             <<N_b, <<S(<<"t", "w", "o">>)>>>> >>)
DC_9_nine == DataContainer(<< <<N_a, <<S(<<"9">>)>>>>,
                              <<N_b, <<S(<<"n", "i", "n", "e">>)>>>> >>)
DC_1_2 == DataContainer(<< <<N_a, <<S(<<"1">>)>>>>,
                           <<N_b, <<S(<<"2">>)>>>> >>)

\* The body p=a'ba
D_body == S(<<"p", "=", "a", "'", "b", "a">>)

\* Candidates: a'b is verbatim in the body; a\'b is not, and is ab once
\* made comparable; aba and a%27ba are found only once made comparable;
\* zzz is nowhere.
X_verbatim == S(<<"a", "'", "b">>)
X_escaped == S(<<"a", "\\", "'", "b">>)
X_aba == S(<<"a", "b", "a">>)
X_quoted == S(<<"a", "%", "2", "7", "b", "a">>)
X_zzz == S(<<"z", "z", "z">>)

Methods == {GET, POST}

\* What the callers hand to set_uri and set_url: identifiers, and a plain
\* string.
UriArgs ==
    {URL(U_hp), URL(U_hpq), URL(U_sp)} \cup {[type |-> "str", url_string |-> U_hp]}

\* What the callers hand to set_dc: containers, and a plain dict.
DcArgs == {DC_empty, DC_a1} \cup {[type |-> "dict", items |-> << >>]}

DataArgs == {None, D_body}

\* What the callers hand to set_cookie: a Cookie, a string, None, a number.
CookieArgs ==
    {Cookie(S(<<"c", "=", "1">>)),
     [type |-> "str", s |-> S(<<"c", "=", "1">>)],
     [type |-> "NoneType", s |-> << >>],
     [type |-> "int", s |-> << >>]}

HeaderArgs == { << <<s_Referer, U_hp>> >> }

SentArgs == {X_verbatim, X_escaped, X_aba, X_zzz}

NoArg == [type |-> "NoneType", s |-> << >>, items |-> << >>]

\* The request every run starts from: FuzzableRequest(URL('h/p')).
Fresh == New(URL(U_hp), GET, << >>, NoArg, NoArg)

(***************************************************************************)
(* The callers of sent() that run at the same time                         *)
(***************************************************************************)

NumThreads == 2

Threads == 1..NumThreads

ThreadsIdle ==
    /\ pc = [t \in Threads |-> "idle"]
    /\ cand = [t \in Threads |-> EmptyStr]
    /\ tdata = [t \in Threads |-> EmptyStr]
    /\ tret = [t \in Threads |-> FALSE]

(***************************************************************************)
(* The life of one request: construction, then setters, sent and export    *)
(* in any order.  last records the last call: its name, the exception it   *)
(* raised, its argument (sent) and what it returned (sent, export).        *)
(***************************************************************************)

Did(op, exc) ==
    [op |-> op, exc |-> exc, arg |-> EmptyStr, ret |-> FALSE, out |-> EmptyStr]

Init ==
    /\ fr = [i \in 1..2 |-> Fresh]
    /\ last = Did("init", "none")
    /\ sent_called = FALSE
    /\ ThreadsIdle

Setter(i, op, r) ==
    /\ fr' = [fr EXCEPT ![i] = r.e]
    /\ last' = Did(op, r.exc)
    /\ UNCHANGED <<sent_called, cand, pc, tdata, tret>>

SetUri(i) == \E v \in UriArgs : Setter(i, "set_uri", set_uri(fr[i], v))

SetUrl(i) == \E v \in UriArgs : Setter(i, "set_url", set_url(fr[i], v))

SetMethod(i) == \E m \in Methods : Setter(i, "set_method", set_method(fr[i], m))

SetDc(i) == \E v \in DcArgs : Setter(i, "set_dc", set_dc(fr[i], v))

SetData(i) == \E d \in DataArgs : Setter(i, "set_data", set_data(fr[i], d))

SetHeaders(i) == \E h \in HeaderArgs : Setter(i, "set_headers", set_headers(fr[i], h))

SetReferer(i) == Setter(i, "set_referer", set_referer(fr[i], URL(U_hp)))

SetCookie(i) == \E c \in CookieArgs : Setter(i, "set_cookie", set_cookie(fr[i], c))

Sent(i, candidates) ==
    \E x \in candidates :
        LET r == sent(fr[i], x)
        IN  /\ fr' = [fr EXCEPT ![i] = r.e]
            /\ last' = [Did("sent", "none") EXCEPT !.arg = x, !.ret = r.ret]
            /\ sent_called' = TRUE
            /\ UNCHANGED <<cand, pc, tdata, tret>>

Export(i) ==
    /\ last' = [Did("export", "none") EXCEPT !.out = export(fr[i])]
    /\ UNCHANGED <<fr, sent_called, cand, pc, tdata, tret>>

Next ==
    \/ SetUri(1)
    \/ SetUrl(1)
    \/ SetMethod(1)
    \/ SetDc(1)
    \/ SetData(1)
    \/ SetHeaders(1)
    \/ SetReferer(1)
    \/ SetCookie(1)
    \/ Sent(1, SentArgs)
    \/ Export(1)

Spec == Init /\ [][Next]_vars

(***************************************************************************)
(* Two requests, each changed by its setters, and compared with == and     *)
(* hash().                                                                 *)
(***************************************************************************)

Equals ==
    /\ last' = [Did("eq", "none") EXCEPT !.ret = eq(fr[1], fr[2]),
                                         !.arg = <<hash(fr[1]), hash(fr[2])>>]
    /\ UNCHANGED <<fr, sent_called, cand, pc, tdata, tret>>

NextEq ==
    \/ \E i \in 1..2 : SetUri(i)
    \/ \E i \in 1..2 : SetUrl(i)
    \/ \E i \in 1..2 : SetMethod(i)
    \/ \E i \in 1..2 : SetDc(i)
    \/ Equals

SpecEq == Init /\ [][NextEq]_vars

(***************************************************************************)
(* is_variant_of over pairs of constructed requests.  The containers are   *)
(* every container over the names a, b and the values '', 1, x with at     *)
(* most MaxTotal values in all, and the three containers of two values     *)
(* named above.                                                            *)
(***************************************************************************)

MaxTotal == 2

Values == {EmptyStr, S(<<"1">>), S(<<"x">>)}

ValueLists == UNION {[1..k -> Values] : k \in 0..MaxTotal}

KeySeqs == {<< >>, <<N_a>>, <<N_b>>, <<N_a, N_b>>, <<N_b, N_a>>}

GenContainers ==
    UNION {
        {DataContainer([i \in 1..Len(ks) |-> <<ks[i], vl[i]>>]) :
            vl \in {f \in [1..Len(ks) -> ValueLists] :
                       Len(Concat(f)) <= MaxTotal}}
        : ks \in KeySeqs}

Containers == GenContainers \cup {DC_1_two, DC_9_nine, DC_1_2}

\* Method and identifier: the same url under two identifiers, another url,
\* another method.
Targets == {<<GET, U_hp>>, <<GET, U_hpq>>, <<GET, U_hq>>, <<POST, U_hp>>}

VariantRequests ==
    {New(URL(t[2]), t[1], << >>, NoArg, dc) : t \in Targets, dc \in Containers}

InitVariant ==
    /\ fr \in [1..2 -> VariantRequests]
    /\ last = Did("init", "none")
    /\ sent_called = FALSE
    /\ ThreadsIdle

\* fr[1].is_variant_of(fr[2])
IsVariantOf ==
    /\ last.op = "init"
    /\ last' = [Did("is_variant_of", "none") EXCEPT
                    !.ret = is_variant_of(fr[1], fr[2])]
    /\ UNCHANGED <<fr, sent_called, cand, pc, tdata, tret>>

NextVariant == IsVariantOf

SpecVariant == InitVariant /\ [][NextVariant]_vars

(***************************************************************************)
(* sent() over requests and candidates: every candidate over the           *)
(* characters a b ' \ of at most MaxCandLen characters, and the named ones.*)
(***************************************************************************)

MaxCandLen == 3

CandChars == {Ord("a"), Ord("b"), Ord("'"), Ord("\\")}

Candidates ==
    UNION {[1..k -> CandChars] : k \in 0..MaxCandLen}
        \cup {X_escaped, X_quoted, X_zzz}

\* The identifier h/p?q=a%27ba
U_quoted == S(<<"h", "/", "p", "?", "q", "=", "a", "%", "2", "7", "b", "a">>)

SentRequests ==
    {set_data(New(URL(u), GET, << >>, NoArg, dc), d).e :
        u \in {U_hp, U_quoted}, dc \in {DC_empty, DC_a1}, d \in DataArgs}

InitSent ==
    /\ fr \in [1..2 -> SentRequests]
    /\ fr[2] = fr[1]
    /\ last = Did("init", "none")
    /\ sent_called = FALSE
    /\ ThreadsIdle

NextSent == Sent(1, Candidates)

SpecSent == InitSent /\ [][NextSent]_vars

(***************************************************************************)
(* Several callers inside sent() of one request at once.  A caller's steps *)
(* are the statements of sent(); tdata is its local data, tret what it     *)
(* returned.                                                               *)
(***************************************************************************)

ConcArgs == {X_verbatim, X_escaped, X_aba, X_quoted}

Step(t, to) == pc' = [pc EXCEPT ![t] = to]

Return(t, v) == tret' = [tret EXCEPT ![t] = v] /\ Step(t, "done")

\* data = self._data or ''
Call(t) ==
    /\ pc[t] = "idle"
    /\ \E x \in ConcArgs : cand' = [cand EXCEPT ![t] = x]
    /\ tdata' = [tdata EXCEPT ![t] = data_or_empty(fr[1])]
    /\ Step(t, "fast")
    /\ UNCHANGED <<fr, last, sent_called, tret>>

FastPath(t) ==
    /\ pc[t] = "fast"
    /\ IF fast_path(fr[1], tdata[t], cand[t])
       THEN Return(t, TRUE)
       ELSE Step(t, "check") /\ UNCHANGED tret
    /\ UNCHANGED <<fr, last, sent_called, cand, tdata>>

\* if self._sent_info_comp is None
CheckCache(t) ==
    /\ pc[t] = "check"
    /\ Step(t, IF fr[1].sent_info_comp = None THEN "build" ELSE "cmp1")
    /\ UNCHANGED <<fr, last, sent_called, cand, tdata, tret>>

BuildData(t) ==
    /\ pc[t] = "build"
    /\ tdata' = [tdata EXCEPT ![t] = build_data(fr[1], tdata[t])]
    /\ Step(t, "store")
    /\ UNCHANGED <<fr, last, sent_called, cand, tret>>

StoreComp(t) ==
    /\ pc[t] = "store"
    /\ fr' = [fr EXCEPT ![1] = store_comp(fr[1], tdata[t])]
    /\ Step(t, "cmp1")
    /\ UNCHANGED <<last, sent_called, cand, tdata, tret>>

Compare1(t) ==
    /\ pc[t] = "cmp1"
    /\ IF comp_matches(smth_instng_comps(cand[t])[1], fr[1].sent_info_comp)
       THEN Return(t, TRUE)
       ELSE Step(t, "cmp2") /\ UNCHANGED tret
    /\ UNCHANGED <<fr, last, sent_called, cand, tdata>>

Compare2(t) ==
    /\ pc[t] = "cmp2"
    /\ Return(t, comp_matches(smth_instng_comps(cand[t])[2], fr[1].sent_info_comp))
    /\ UNCHANGED <<fr, last, sent_called, cand, tdata>>

InitConc ==
    /\ fr \in [1..2 -> SentRequests]
    /\ fr[2] = fr[1]
    /\ last = Did("init", "none")
    /\ sent_called = FALSE
    /\ ThreadsIdle

NextConc ==
    \E t \in Threads :
        \/ Call(t)
        \/ FastPath(t)
        \/ CheckCache(t)
        \/ BuildData(t)
        \/ StoreComp(t)
        \/ Compare1(t)
        \/ Compare2(t)

SpecConc == InitConc /\ [][NextConc]_vars

(***************************************************************************)
(* Properties                                                              *)
(***************************************************************************)

Cache(e) == e.sent_info_comp

\* The cache a request builds from what it holds now.
BuiltNow(e) == make_comp(build_data(e, data_or_empty(e))
                         \o unquote(build_data(e, data_or_empty(e))))

\* C1: after construction and any set_uri and set_url calls, the stored url
\* is the stored uri without its query string.
C1_UrlIsUriWithoutQuery ==
    url_str(fr[1].url) = strip_query(url_str(fr[1].uri))

\* C2: the match cache is None until the first sent call, and once it holds
\* a value no later call (set_uri, set_url, set_data, set_dc, sent) changes
\* it: it is assigned at most once.
C2_CacheAssignedOnce ==
    /\ [](~sent_called => Cache(fr[1]) = None)
    /\ [][Cache(fr[1]) # None => Cache(fr[1])' = Cache(fr[1])]_vars

\* C2 happens: a sent call has just returned on a request whose cache is
\* older than its content.
C2_StaleCacheKept ==
    /\ last.op = "sent"
    /\ Cache(fr[1]) # None
    /\ Cache(fr[1]) # BuiltNow(fr[1])

\* A string of decimal digits and nothing else (the empty string is one).
OnlyDigits(v) == \A i \in 1..Len(v) : v[i] \in ch_0..ch_9

\* A string of at least one character, all of them decimal digits.
Numeric(v) == Len(v) > 0 /\ OnlyDigits(v)

\* The rule of variant equivalence, for a given reading of "numeric".
SameShape(a, b, numeric(_)) ==
    LET va == chain(values(a.dc))
        vb == chain(values(b.dc))
    IN  /\ a.method = b.method
        /\ a.url = b.url
        /\ keys(a.dc) = keys(b.dc)
        /\ Len(va) = Len(vb)
        /\ \A i \in 1..Len(va) : numeric(va[i]) = numeric(vb[i])

ValueCount(e) == Len(chain(values(e.dc)))

\* C3 as stated: is_variant_of is true exactly when method, url, names and
\* value count agree and paired values are both all-digit or both not.
C3_VariantIffSameShape ==
    last.op = "is_variant_of" => (last.ret <=> SameShape(fr[1], fr[2], OnlyDigits))

\* C3, amended: the same, where a numeric value has at least one character;
\* and so false for different value counts, true for two empty containers
\* with the same method and url.
C3_VariantIffSameShapeNonEmpty ==
    last.op = "is_variant_of" =>
        /\ last.ret <=> SameShape(fr[1], fr[2], Numeric)
        /\ ValueCount(fr[1]) # ValueCount(fr[2]) => ~last.ret
        /\ (/\ fr[1].dc = DC_empty
            /\ fr[2].dc = DC_empty
            /\ fr[1].method = fr[2].method
            /\ fr[1].url = fr[2].url) => last.ret

\* C3 happens: a variant pair in which an empty value is paired with a
\* value that is no number.
C3_EmptyPairedWithText ==
    /\ last.op = "is_variant_of"
    /\ last.ret
    /\ \E i \in 1..ValueCount(fr[1]) :
           /\ chain(values(fr[1].dc))[i] = EmptyStr
           /\ chain(values(fr[2].dc))[i] = S(<<"x">>)

\* The candidate is in the body, the identifier, the decoded body or the
\* decoded identifier as it stands.
Verbatim(e, x) ==
    \/ (e.data # None /\ In(x, e.data))
    \/ In(x, url_str(e.uri))
    \/ (e.data # None /\ In(x, unquote(e.data)))
    \/ In(x, unquote(url_str(e.uri)))

OneTwoNinePair ==
    /\ last.op = "is_variant_of"
    /\ fr[1].method = GET
    /\ fr[2].method = GET
    /\ fr[1].url = fr[2].url
    /\ fr[1].dc = DC_1_two
    /\ fr[2].dc = DC_9_nine

\* C5 as stated: GET a=1&b=two and GET a=9&b=nine on one url are not
\* variants.
C5_OneTwoNineNotVariants == OneTwoNinePair => ~last.ret

\* C5, amended: they are variants.
C5_OneTwoNineVariants == OneTwoNinePair => last.ret

\* C5 happens.
C5_OneTwoNineCompared == OneTwoNinePair /\ fr[1].uri # fr[2].uri

\* C6: a setter that ends in an error leaves every field of the request as
\* it was.
C6_RejectLeavesRequest ==
    [][last'.exc # "none" => fr' = fr]_vars

\* C6 happens: set_cookie has just rejected its argument on a request that
\* holds a cookie, a body, headers and a cache.
C6_RejectedWithContent ==
    /\ last.op = "set_cookie"
    /\ last.exc = "BaseFrameworkException"
    /\ fr[1].cookie # Cookie(EmptyStr)
    /\ fr[1].data # None
    /\ fr[1].headers # Headers(<< >>)
    /\ Cache(fr[1]) # None

\* C7: equal requests have equal hashes, and so have requests with the same
\* identifier, whatever their method and parameters.
C7_EqualHashes ==
    last.op = "eq" =>
        /\ last.ret => last.arg[1] = last.arg[2]
        /\ fr[1].uri = fr[2].uri => last.arg[1] = last.arg[2]

\* C7 happens: two requests changed by setters share the identifier and
\* differ in method and parameters.
C7_SameUriOtherMethod ==
    /\ last.op = "eq"
    /\ ~last.ret
    /\ fr[1].uri = fr[2].uri
    /\ fr[1].uri # Fresh.uri
    /\ fr[1].method # fr[2].method
    /\ fr[1].dc # fr[2].dc

\* METHOD,IDENT[?PARAMS],[PARAMS]
Exported(e, ident) ==
    e.method \o s_comma \o ident
    \o (IF e.method = GET /\ dc_bool(e.dc) THEN s_qm \o dc_str(e.dc) ELSE EmptyStr)
    \o s_comma
    \o (IF e.method # GET THEN dc_str(e.dc) ELSE EmptyStr)

\* C8 as stated: export is the method, the request's URI, the parameters
\* after a ? for GET, and the parameters as third field otherwise.
C8_ExportOfUri ==
    last.op = "export" => last.out = Exported(fr[1], url_str(fr[1].uri))

\* C8, amended: the same with the request's url, the identifier without its
\* query string as stored.
C8_ExportOfUrl ==
    last.op = "export" => last.out = Exported(fr[1], url_str(fr[1].url))

\* C8 happens: GET h/p?a=b with a=1 is exported as GET,h/p?a=1,
C8_ExportedGet ==
    /\ last.op = "export"
    /\ fr[1].uri = URL(U_hpq)
    /\ fr[1].dc = DC_a1
    /\ last.out = S(<<"G", "E", "T", ",", "h", "/", "p", "?", "a", "=", "1", ",">>)

\* C9: is_variant_of is reflexive and symmetric.
C9_ReflexiveSymmetric ==
    last.op = "is_variant_of" =>
        /\ last.ret = is_variant_of(fr[2], fr[1])
        /\ fr[2] = fr[1] => last.ret

\* C9 happens: two different requests with values are variants.
C9_VariantsCompared ==
    /\ last.op = "is_variant_of"
    /\ last.ret
    /\ fr[1].dc # fr[2].dc
    /\ ValueCount(fr[1]) = 2

\* The request before any caller of sent() touched it.
Untouched == [fr[1] EXCEPT !.sent_info_comp = None]

\* C10: every caller returns what sent would return run alone, and the
\* cache holds nothing or what one build alone would store; once a caller
\* is past the store it holds that.
C10_RaceIsBenign ==
    /\ \A t \in Threads :
           pc[t] = "done" => tret[t] = sent(Untouched, cand[t]).ret
    /\ Cache(fr[1]) \in {None, BuiltNow(Untouched)}
    /\ (\E t \in Threads : pc[t] \in {"cmp1", "cmp2"}) =>
           Cache(fr[1]) = BuiltNow(Untouched)

\* C10 happens: one caller has stored the cache and returned while another,
\* which saw it empty, is about to store it again.
C10_SecondStore ==
    \E t, u \in Threads :
        /\ pc[t] = "done"
        /\ ~fast_path(fr[1], data_or_empty(fr[1]), cand[t])
        /\ pc[u] = "store"

====
